---- MODULE Spec2Model ----
(***************************************************************************)
(* The owner-indexed reactive store of bommer (src/src/store/mod.rs) and   *)
(* its per-subscriber broadcast channels (src/src/store/pubsub.rs).        *)
(*                                                                         *)
(* One writer task (`run`) turns watcher events into apply / delete /      *)
(* reset calls.  A call holds the write lock of the store from its first   *)
(* statement to its return; inside the call the only suspension points are *)
(* the `l.send(evt).await` of `broadcast`.  Subscribers register under the *)
(* same write lock, receive from a bounded tokio mpsc channel, and on drop *)
(* spawn a task that removes their sender from the listener table.         *)
(***************************************************************************)
EXTENDS Integers, Sequences, FiniteSets, TLC

\* ------------------------------------------------------------------ universe

\* K = ImageRef, O = PodRef, subscriber ids (uuid::Uuid)
Keys == {"I1", "I2"}
Owners == {"P1", "P2"}
Subs == {"s1", "s2"}

\* mpsc::channel(16) in Inner::subscribe, scaled down so that a full queue is
\* reached within the model
QueueCap == 2

\* watcher events the writer task consumes in one behaviour
MaxCalls == 2

\* pieces an image id of the lookup check is made of, at most
MaxTokens == 4

\* map.subscribe(128) in scanner, scaled down so that the scan loop can lose
\* its subscription within the model
ScanCap == 2

\* container statuses of a pod the watcher reports, at most
MaxStatuses == 2

\* pods in the list of a watcher Restarted event, at most
MaxPods == 2

\* buffer_unordered(10) in Inner::broadcast: at most this many sends in flight
BufferUnordered == 10

\* ------------------------------------------------------------------ maps

EmptyMap == [k \in {} |-> {}]

Put(m, k, v) == [x \in (DOMAIN m) \cup {k} |-> IF x = k THEN v ELSE m[x]]

Remove(m, k) == [x \in (DOMAIN m) \ {k} |-> m[x]]

\* ------------------------------------------------------------------ events

NoKey == "-"

NoEvent == [type |-> "None", key |-> NoKey, owners |-> {}, map |-> EmptyMap]

Added(k, ow) == [type |-> "Added", key |-> k, owners |-> ow, map |-> EmptyMap]

Modified(k, ow) == [type |-> "Modified", key |-> k, owners |-> ow, map |-> EmptyMap]

Removed(k) == [type |-> "Removed", key |-> k, owners |-> {}, map |-> EmptyMap]

Restart(m) == [type |-> "Restart", key |-> NoKey, owners |-> {}, map |-> m]

\* the consumer's fold of one event onto its copy of the workload
ApplyEvent(m, e) ==
    CASE e.type \in {"Added", "Modified"} -> Put(m, e.key, e.owners)
      [] e.type = "Removed" -> Remove(m, e.key)
      [] e.type = "Restart" -> e.map
      [] OTHER -> m

FoldEvents(m, es) ==
    LET F[i \in 0..Len(es)] == IF i = 0 THEN m ELSE ApplyEvent(F[i - 1], es[i])
    IN F[Len(es)]

\* ------------------------------------------------------------------ store

\* DeleteKey with the `is_empty` branch lost: the entry stays, without owners
DeleteKeyNoErase(imgs, o, k) ==
    IF k \notin DOMAIN imgs
    THEN [images |-> imgs, ev |-> NoEvent]
    ELSE [images |-> [imgs EXCEPT ![k] = @ \ {o}], ev |-> Modified(k, imgs[k] \ {o})]

\* DeleteKey that announces only the removal of an entry
DeleteKeySilent(imgs, o, k) ==
    IF k \notin DOMAIN imgs
    THEN [images |-> imgs, ev |-> NoEvent]
    ELSE LET ow == imgs[k] \ {o}
         IN IF ow = {}
            THEN [images |-> Remove(imgs, k), ev |-> Removed(k)]
            ELSE [images |-> [imgs EXCEPT ![k] = ow], ev |-> NoEvent]

\* DeleteKey that clones the entry for its event before the owner is removed
DeleteKeyStaleEvent(imgs, o, k) ==
    IF k \notin DOMAIN imgs
    THEN [images |-> imgs, ev |-> NoEvent]
    ELSE LET ow == imgs[k] \ {o}
         IN IF ow = {}
            THEN [images |-> Remove(imgs, k), ev |-> Removed(k)]
            ELSE [images |-> [imgs EXCEPT ![k] = ow], ev |-> Modified(k, imgs[k])]

\* Inner::delete, the body of `for image in images` for one image
DeleteKey(imgs, o, k) ==
    IF k \notin DOMAIN imgs
    THEN [images |-> imgs, ev |-> NoEvent]
    ELSE LET ow == imgs[k] \ {o}
         IN IF ow = {}
            THEN [images |-> Remove(imgs, k), ev |-> Removed(k)]
            ELSE [images |-> [imgs EXCEPT ![k] = ow], ev |-> Modified(k, ow)]

\* AddKey with `if added` inverted: joining an existing entry is not announced
AddKeySilentJoin(imgs, o, k) ==
    IF k \notin DOMAIN imgs
    THEN [images |-> Put(imgs, k, {o}), ev |-> Added(k, {o})]
    ELSE [images |-> [imgs EXCEPT ![k] = @ \cup {o}], ev |-> NoEvent]

\* AddKey with the Occupied branch lost: an existing entry is left as it is
AddKeyVacantOnly(imgs, o, k) ==
    IF k \notin DOMAIN imgs
    THEN [images |-> Put(imgs, k, {o}), ev |-> Added(k, {o})]
    ELSE [images |-> imgs, ev |-> NoEvent]

\* AddKey that announces a new entry by a Restart of the whole map
AddKeyRestarts(imgs, o, k) ==
    IF k \notin DOMAIN imgs
    THEN [images |-> Put(imgs, k, {o}), ev |-> Restart(Put(imgs, k, {o}))]
    ELSE LET ow == imgs[k] \cup {o}
         IN IF o \notin imgs[k]
            THEN [images |-> [imgs EXCEPT ![k] = ow], ev |-> Modified(k, ow)]
            ELSE [images |-> imgs, ev |-> NoEvent]

\* AddKey that clones the entry for its event before the owner is inserted
AddKeyStaleEvent(imgs, o, k) ==
    IF k \notin DOMAIN imgs
    THEN [images |-> Put(imgs, k, {o}), ev |-> Added(k, {o})]
    ELSE LET ow == imgs[k] \cup {o}
         IN IF o \notin imgs[k]
            THEN [images |-> [imgs EXCEPT ![k] = ow], ev |-> Modified(k, imgs[k])]
            ELSE [images |-> imgs, ev |-> NoEvent]

\* AddKey that announces every join as Added with the joining owner alone
AddKeyAddedAlways(imgs, o, k) ==
    IF k \notin DOMAIN imgs
    THEN [images |-> Put(imgs, k, {o}), ev |-> Added(k, {o})]
    ELSE LET ow == imgs[k] \cup {o}
         IN IF o \notin imgs[k]
            THEN [images |-> [imgs EXCEPT ![k] = ow], ev |-> Added(k, {o})]
            ELSE [images |-> imgs, ev |-> NoEvent]

\* Inner::apply, the body of `for image in &keys` for one image
AddKey(imgs, o, k) ==
    IF k \notin DOMAIN imgs
    THEN [images |-> Put(imgs, k, {o}), ev |-> Added(k, {o})]
    ELSE LET ow == imgs[k] \cup {o}
         IN IF o \notin imgs[k]
            THEN [images |-> [imgs EXCEPT ![k] = ow], ev |-> Modified(k, ow)]
            ELSE [images |-> imgs, ev |-> NoEvent]

\* apply without its early return
ApplyNeverNoop(pds, o, ks) == FALSE

\* Inner::apply, the early return: the owner already holds exactly these keys
ApplyIsNoop(pds, o, ks) == o \in DOMAIN pds /\ pds[o] = ks

\* the images map that belongs to a pods map: what `to_state` builds from a list
\* of pods with distinct references
ImagesOf(pds) ==
    LET used == UNION {pds[o] : o \in DOMAIN pds}
    IN [k \in used |-> {o \in DOMAIN pds : k \in pds[o]}]

\* the pods maps the watcher restarts carry: no pod, one pod, a pod without
\* images, two pods sharing an image
PodMaps ==
    { EmptyMap,
      [o \in {"P1"} |-> {"I1"}],
      [o \in {"P2"} |-> {}],
      [o \in Owners |-> IF o = "P1" THEN {"I1"} ELSE Keys] }

\* the orders in which a `for` loop over a HashSet can visit its keys
KeyOrders ==
    {ord \in [1..Cardinality(Keys) -> Keys] :
        \A i, j \in DOMAIN ord : i # j => ord[i] # ord[j]}

InSet(S, k) == k \in S

Iter(S, ord) == SelectSeq(ord, LAMBDA k : InSet(S, k))

\* Inner::delete: the whole loop over the owner's keys, visited in order ks
DeleteLoop(imgs, o, ks) ==
    LET F[i \in 0..Len(ks)] ==
          IF i = 0
          THEN [images |-> imgs, events |-> <<>>]
          ELSE LET r == DeleteKey(F[i - 1].images, o, ks[i])
               IN [images |-> r.images,
                   events |-> IF r.ev = NoEvent THEN F[i - 1].events
                              ELSE Append(F[i - 1].events, r.ev)]
    IN F[Len(ks)]

\* Inner::apply: the whole loop over the new keys, visited in order ks
AddLoop(imgs, o, ks) ==
    LET F[i \in 0..Len(ks)] ==
          IF i = 0
          THEN [images |-> imgs, events |-> <<>>]
          ELSE LET r == AddKey(F[i - 1].images, o, ks[i])
               IN [images |-> r.images,
                   events |-> IF r.ev = NoEvent THEN F[i - 1].events
                              ELSE Append(F[i - 1].events, r.ev)]
    IN F[Len(ks)]

\* delete that reads the owner's keys with `get` and never removes the pod
RunDeleteKeepsPod(imgs, pds, o, ord) ==
    IF o \in DOMAIN pds
    THEN LET r == DeleteLoop(imgs, o, Iter(pds[o], ord))
         IN [images |-> r.images, pods |-> pds, events |-> r.events]
    ELSE [images |-> imgs, pods |-> pds, events |-> <<>>]

\* Inner::delete as one call: the store and the events it ends with
RunDelete(imgs, pds, o, ord) ==
    IF o \in DOMAIN pds
    THEN LET r == DeleteLoop(imgs, o, Iter(pds[o], ord))
         IN [images |-> r.images, pods |-> Remove(pds, o), events |-> r.events]
    ELSE [images |-> imgs, pods |-> pds, events |-> <<>>]

\* apply that does not release the owner's current keys first
RunApplyNoRelease(imgs, pds, o, ks, dord, aord) ==
    IF ApplyIsNoop(pds, o, ks)
    THEN [images |-> imgs, pods |-> pds, events |-> <<>>]
    ELSE LET a == AddLoop(imgs, o, Iter(ks, aord))
         IN [images |-> a.images, pods |-> Put(pds, o, ks), events |-> a.events]

\* Inner::apply as one call; dord and aord order its delete and add loops
RunApply(imgs, pds, o, ks, dord, aord) ==
    IF ApplyIsNoop(pds, o, ks)
    THEN [images |-> imgs, pods |-> pds, events |-> <<>>]
    ELSE LET d == RunDelete(imgs, pds, o, dord)
             a == AddLoop(d.images, o, Iter(ks, aord))
         IN [images |-> a.images,
             pods |-> Put(d.pods, o, ks),
             events |-> d.events \o a.events]

\* reset that clones the map for its event before it assigns the new one
ResetSnapshotStale(old, new) == old

\* Inner::reset: `Event::Restart(self.images.clone())` after `self.images = images`
ResetSnapshot(old, new) == new

\* subscribe without the `try_send` of the snapshot
SubscribeQueueEmpty(imgs) == <<>>

\* Inner::subscribe, the content of the fresh channel: the Restart snapshot
SubscribeQueue(imgs) == <<Restart(imgs)>>

\* ------------------------------------------------------------------ image ids

\* an ImageRef is a string; a string is the sequence of its characters
Sha256Prefix == <<"s", "h", "a", "2", "5", "6", ":">>

\* "registry.io/foo/bar@sha256:deadbeef"
GoodRef ==
    <<"r", "e", "g", "i", "s", "t", "r", "y", ".", "i", "o", "/", "f", "o", "o", "/", "b", "a", "r", "@">> \o
    <<"s", "h", "a", "2", "5", "6", ":", "d", "e", "a", "d", "b", "e", "e", "f">>

\* "docker.io/foo/bar:latest", an image id without digest
TagRef == <<"d", "o", "c", "k", "e", "r", ".", "i", "o", "/", "f", "o", "o", "/", "b", "a", "r", ":", "l", "a", "t", "e", "s", "t">>

\* the image id behind each key of the model
ImageId(k) == IF k = "I1" THEN GoodRef ELSE TagRef

\* the positions of character c in str
Positions(str, c) == {i \in DOMAIN str : str[i] = c}

Last(S) == CHOOSE i \in S : \A j \in S : j <= i

First(S) == CHOOSE i \in S : \A j \in S : i <= j

\* split_once in place of rsplit_once: the split at the leftmost c
SplitOnce(str, c) ==
    IF Positions(str, c) = {}
    THEN [some |-> FALSE, base |-> <<>>, digest |-> <<>>]
    ELSE LET i == First(Positions(str, c))
         IN [some |-> TRUE,
             base |-> SubSeq(str, 1, i - 1),
             digest |-> SubSeq(str, i + 1, Len(str))]

\* str::rsplit_once: the parts before and after the rightmost c, if there is one
RSplitOnce(str, c) ==
    IF Positions(str, c) = {}
    THEN [some |-> FALSE, base |-> <<>>, digest |-> <<>>]
    ELSE LET i == Last(Positions(str, c))
         IN [some |-> TRUE,
             base |-> SubSeq(str, 1, i - 1),
             digest |-> SubSeq(str, i + 1, Len(str))]

\* base.split('/').last(): what follows the rightmost '/', or all of base
LastComponent(base) ==
    IF Positions(base, "/") = {}
    THEN base
    ELSE SubSeq(base, Last(Positions(base, "/")) + 1, Len(base))

\* str::starts_with
StartsWith(str, prefix) ==
    /\ Len(str) >= Len(prefix)
    /\ SubSeq(str, 1, Len(prefix)) = prefix

\* PackageUrl::new("oci", name) is library code: it accepts a name, and for the
\* empty name either outcome is allowed for
PurlNewOutcomes(name) == IF name = <<>> THEN {TRUE, FALSE} ELSE {TRUE}

\* Scanner::lookup up to the request: the purl it asks for, or the bail!
Lookup(image, purlOk) ==
    LET sp == RSplitOnce(image, "@")
    IN IF sp.some /\ purlOk /\ StartsWith(sp.digest, Sha256Prefix)
       THEN [fetch |-> TRUE, name |-> LastComponent(sp.base), version |-> sp.digest]
       ELSE [fetch |-> FALSE, name |-> <<>>, version |-> <<>>]

\* the image ids tried: GoodRef, TagRef, and every string made of at most
\* MaxTokens of these pieces
Tokens == {<<"a">>, <<"/">>, <<"@">>, <<"s">>, Sha256Prefix}

Flatten(ts) ==
    LET F[i \in 0..Len(ts)] == IF i = 0 THEN <<>> ELSE F[i - 1] \o ts[i]
    IN F[Len(ts)]

Refs ==
    {GoodRef, TagRef} \cup
    {Flatten(ts) : ts \in UNION {[1..n -> Tokens] : n \in 0..MaxTokens}}

\* ------------------------------------------------------------------ state

VARIABLES
    images,     \* Inner.images : K -> owners (V is the unit type)
    pods,       \* Inner.pods : O -> set of K
    listeners,  \* Inner.listeners : the ids whose Sender is in the table
    queue,      \* the buffer of each subscriber's mpsc channel
    rx,         \* each Subscription: "none", "open", or "closed" (dropped,
                \* its removal task not yet run)
    lock,       \* the RwLock around Inner: "free" or "write"
    call,       \* the call the writer task is in
    phase,      \* where that call is: "idle", "delete", "add", "reset"
    rem,        \* keys the current `for` loop has still to visit
    pre,        \* history: images and pods when the current call began
    emitted,    \* history: the events the current call has broadcast
    evt,        \* the event `broadcast` is delivering, NoEvent outside it
    todo,       \* listeners whose send of evt has not completed
    failed,     \* listeners whose send of evt returned Err
    replay,     \* history: all emitted events folded onto the empty map
    view,       \* history: per subscriber, its received events folded
    expect,     \* history: per subscriber, events emitted since it registered
                \* and not yet received
    ncalls,     \* watcher events consumed so far
    snapAt,     \* history: per subscriber, images when it registered, kept
                \* until its first receive
    owed,       \* history: per subscriber, reset calls made since it registered
                \* minus Restart events it received after its first event
    snap,       \* the map the last Store::get_state call returned
    emap,       \* bombastic::Map: the enriched State, K -> Image{pods, sbom}
    squeue,     \* the buffer of the scan loop's subscription to the Map
    srx,        \* that subscription: "none", "open", or "lost" (evicted by the
                \* Map, buffered events still to be received)
    scanner,    \* the scan loop: where it is, the image it scans, the images
                \* of a Restart it has still to visit, the state it will write
    mevt,       \* the event the mirror loop has received and not yet applied
    ref,        \* an image id handed to Scanner::lookup on its own
    looked,     \* what that lookup did with it
    wevt,       \* the watcher event `run` has taken from the stream and not
                \* yet turned into a call, and the pod of it being looked at
    built,      \* to_state: by_images, by_pods and the pods visited so far
    elock       \* the task holding the write lock of the enriched State:
                \* "none", "mirror" or "scan"

vars == <<images, pods, listeners, queue, rx, lock, call, phase, rem, pre, emitted,
          evt, todo, failed, replay, view, expect, snapAt, owed, ncalls, snap,
          emap, squeue, srx, scanner, mevt, ref, looked, wevt, built, elock>>

storeVars == <<images, pods>>
callVars == <<lock, call, phase, rem, pre>>
callState == <<callVars, ncalls>>
castVars == <<evt, todo, failed>>
subVars == <<listeners, queue, rx>>
subHist == <<replay, view, expect, snapAt, owed>>
histVars == <<subHist, emitted>>

\* what the store's own tasks and its subscribers never touch
enrichVars == <<emap, squeue, srx, scanner, mevt>>
apart == <<snap, ref, looked>>
watchVars == <<wevt, built>>
beside == <<apart, enrichVars, elock>>
aside == <<beside, watchVars>>

NoCall == [op |-> "none", owner |-> NoKey, keys |-> {}]

NoSnap == [taken |-> FALSE, map |-> EmptyMap]

NoPre == [images |-> EmptyMap, pods |-> EmptyMap]

\* SbomState; NoSbom stands where there is none
NoSbom == [kind |-> "None", data |-> "-"]
Scheduled == [kind |-> "Scheduled", data |-> "-"]
Found(blob) == [kind |-> "Found", data |-> blob]
Err(msg) == [kind |-> "Err", data |-> msg]

\* Option<Image>::None
NoImage == [pods |-> {}, sbom |-> NoSbom]

Image(ps, sb) == [pods |-> ps, sbom |-> sb]

\* an Option that is None
None == "none"

NoPod == [namespace |-> None, name |-> None, ids |-> <<>>]

NoWatch == [kind |-> "none", pod |-> NoPod]

NoBuilt == [images |-> EmptyMap, pods |-> EmptyMap, n |-> 0]

NoLookup == [pc |-> "idle", fetch |-> FALSE, name |-> <<>>, version |-> <<>>,
             state |-> NoSbom]

ScanIdle == [pc |-> "subscribe", image |-> NoKey, rest |-> {}, result |-> NoSbom]

Init ==
    /\ images = EmptyMap
    /\ pods = EmptyMap
    /\ listeners = {}
    /\ queue = [s \in Subs |-> <<>>]
    /\ rx = [s \in Subs |-> "none"]
    /\ lock = "free"
    /\ call = NoCall
    /\ phase = "idle"
    /\ rem = {}
    /\ pre = NoPre
    /\ emitted = <<>>
    /\ evt = NoEvent
    /\ todo = {}
    /\ failed = {}
    /\ replay = EmptyMap
    /\ view = [s \in Subs |-> EmptyMap]
    /\ expect = [s \in Subs |-> <<>>]
    /\ snapAt = [s \in Subs |-> NoSnap]
    /\ owed = [s \in Subs |-> 0]
    /\ ncalls = 0
    /\ snap = NoSnap
    /\ emap = EmptyMap
    /\ squeue = <<>>
    /\ srx = "none"
    /\ scanner = ScanIdle
    /\ mevt = NoEvent
    /\ ref = <<>>
    /\ looked = NoLookup
    /\ wevt = NoWatch
    /\ built = NoBuilt
    /\ elock = None

\* ------------------------------------------------------------------ broadcast

\* a send that cannot complete now: the receiver is alive and its buffer is full
\* (tokio's Sender::send waits for capacity and fails only on a closed receiver)
SendBlocked(s) == rx[s] = "open" /\ Len(queue[s]) >= QueueCap

\* buffer_unordered polls at most BufferUnordered sends at a time; a blocked
\* send keeps its slot
HasSlot(s) == Cardinality({t \in todo \ {s} : SendBlocked(t)}) < BufferUnordered

\* Inner::broadcast entered with event e: one send per listener
Broadcast(e) ==
    /\ evt' = e
    /\ todo' = listeners
    /\ failed' = {}
    /\ replay' = ApplyEvent(replay, e)
    /\ expect' = [s \in Subs |-> IF s \in listeners THEN Append(expect[s], e)
                                 ELSE expect[s]]
    /\ emitted' = Append(emitted, e)
    /\ UNCHANGED <<view, snapAt>>

\* a loop body that ends in `broadcast(..).await`, or in nothing
Emit(e) ==
    IF e = NoEvent
    THEN UNCHANGED <<castVars, histVars>>
    ELSE Broadcast(e) /\ owed' = owed

\* `l.send(evt).await` for listener s completes: Ok, or Err on a closed receiver
Send(s) ==
    /\ evt # NoEvent
    /\ s \in todo
    /\ HasSlot(s)
    /\ IF rx[s] = "open"
       THEN /\ Len(queue[s]) < QueueCap
            /\ queue' = [queue EXCEPT ![s] = Append(@, evt)]
            /\ failed' = failed
       ELSE /\ failed' = failed \cup {s}
            /\ queue' = queue
    /\ todo' = todo \ {s}
    /\ UNCHANGED <<storeVars, callState, listeners, rx, evt, histVars>>
    /\ UNCHANGED aside

\* the failed list taken before the sends have completed
AllSentEarly == TRUE

\* `.collect().await` is ready: every send of the event has completed
AllSent == todo = {}

\* all sends collected: `for id in failed { self.listeners.remove(&id) }`
BroadcastDone ==
    /\ evt # NoEvent
    /\ AllSent
    /\ listeners' = listeners \ failed
    /\ evt' = NoEvent
    /\ failed' = {}
    /\ UNCHANGED <<storeVars, callState, queue, rx, todo, histVars>>
    /\ UNCHANGED aside

\* ------------------------------------------------------------------ writer

Return ==
    /\ lock' = "free"
    /\ call' = NoCall
    /\ phase' = "idle"
    /\ rem' = {}
    /\ pre' = NoPre
    /\ emitted' = <<>>

\* Inner::apply(o, ks) under a fresh write guard, up to its first loop
Apply(o, ks) ==
    /\ lock = "free"
    /\ IF ApplyIsNoop(pods, o, ks)
       THEN UNCHANGED <<pods, callVars>>
       ELSE /\ lock' = "write"
            /\ call' = [op |-> "apply", owner |-> o, keys |-> ks]
            /\ pre' = [images |-> images, pods |-> pods]
            /\ IF o \in DOMAIN pods
               THEN /\ phase' = "delete"
                    /\ rem' = pods[o]
                    /\ pods' = Remove(pods, o)
               ELSE /\ phase' = "add"
                    /\ rem' = ks
                    /\ pods' = pods
    /\ UNCHANGED <<images, subVars, castVars, histVars>>
    /\ UNCHANGED beside

\* run: watcher::Event::Applied(pod), to_key(pod) = o, images_from_pod(pod) = ks
Applied(o, ks) ==
    /\ ncalls < MaxCalls
    /\ ncalls' = ncalls + 1
    /\ Apply(o, ks)
    /\ UNCHANGED watchVars

\* Inner::delete(o) under a fresh write guard, up to its loop
Delete(o) ==
    /\ lock = "free"
    /\ IF o \in DOMAIN pods
       THEN /\ lock' = "write"
            /\ call' = [op |-> "delete", owner |-> o, keys |-> {}]
            /\ pre' = [images |-> images, pods |-> pods]
            /\ phase' = "delete"
            /\ rem' = pods[o]
            /\ pods' = Remove(pods, o)
       ELSE UNCHANGED <<pods, callVars>>
    /\ UNCHANGED <<images, subVars, castVars, histVars>>
    /\ UNCHANGED beside

\* run: watcher::Event::Deleted(pod), to_key(pod) = o
Deleted(o) ==
    /\ ncalls < MaxCalls
    /\ ncalls' = ncalls + 1
    /\ Delete(o)
    /\ UNCHANGED watchVars

\* Inner::reset(imgs, pds) under a fresh write guard, up to its broadcast
Reset(imgs, pds) ==
    /\ lock = "free"
    /\ lock' = "write"
    /\ call' = [op |-> "reset", owner |-> NoKey, keys |-> {}]
    /\ pre' = [images |-> images, pods |-> pods]
    /\ phase' = "reset"
    /\ rem' = {}
    /\ images' = imgs
    /\ pods' = pds
    /\ Broadcast(Restart(ResetSnapshot(images, imgs)))
    /\ owed' = [s \in Subs |-> IF rx[s] = "open" THEN owed[s] + 1 ELSE owed[s]]
    /\ UNCHANGED subVars
    /\ UNCHANGED beside

\* run: watcher::Event::Restarted(pods), to_state(pods) = (ImagesOf(ps), ps)
Restarted(ps) ==
    /\ ncalls < MaxCalls
    /\ ncalls' = ncalls + 1
    /\ Reset(ImagesOf(ps), ps)
    /\ UNCHANGED watchVars

\* Inner::delete: one turn of `for image in images`
DeleteStep ==
    /\ lock = "write" /\ phase = "delete" /\ evt = NoEvent
    /\ \E k \in rem :
         LET r == DeleteKey(images, call.owner, k)
         IN /\ images' = r.images
            /\ rem' = rem \ {k}
            /\ Emit(r.ev)
    /\ UNCHANGED <<pods, lock, call, phase, pre, ncalls, subVars>>
    /\ UNCHANGED aside

\* Inner::delete returns: to run, or back into Inner::apply
DeleteDone ==
    /\ lock = "write" /\ phase = "delete" /\ evt = NoEvent
    /\ rem = {}
    /\ IF call.op = "delete"
       THEN Return
       ELSE /\ phase' = "add"
            /\ rem' = call.keys
            /\ UNCHANGED <<lock, call, pre, emitted>>
    /\ UNCHANGED <<storeVars, subVars, castVars, subHist, ncalls>>
    /\ UNCHANGED aside

\* Inner::apply: one turn of `for image in &keys`
AddStep ==
    /\ lock = "write" /\ phase = "add" /\ evt = NoEvent
    /\ \E k \in rem :
         LET r == AddKey(images, call.owner, k)
         IN /\ images' = r.images
            /\ rem' = rem \ {k}
            /\ Emit(r.ev)
    /\ UNCHANGED <<pods, lock, call, phase, pre, ncalls, subVars>>
    /\ UNCHANGED aside

\* Inner::apply: `self.pods.insert(owner_ref, keys)` and return
AddDone ==
    /\ lock = "write" /\ phase = "add" /\ evt = NoEvent
    /\ rem = {}
    /\ pods' = Put(pods, call.owner, call.keys)
    /\ Return
    /\ UNCHANGED <<images, subVars, castVars, subHist, ncalls>>
    /\ UNCHANGED aside

\* Inner::reset returns
ResetDone ==
    /\ lock = "write" /\ phase = "reset" /\ evt = NoEvent
    /\ Return
    /\ UNCHANGED <<storeVars, subVars, castVars, subHist, ncalls>>
    /\ UNCHANGED aside

\* ------------------------------------------------------------------ subscribers

\* Store::subscribe: under the write lock, Inner::subscribe
Subscribe(s) ==
    /\ lock = "free"
    /\ rx[s] = "none"
    /\ s \notin listeners
    /\ queue' = [queue EXCEPT ![s] = SubscribeQueue(images)]
    /\ listeners' = listeners \cup {s}
    /\ rx' = [rx EXCEPT ![s] = "open"]
    /\ snapAt' = [snapAt EXCEPT ![s] = [taken |-> TRUE, map |-> images]]
    /\ expect' = [expect EXCEPT ![s] = <<>>]
    /\ view' = [view EXCEPT ![s] = EmptyMap]
    /\ owed' = [owed EXCEPT ![s] = 0]
    /\ UNCHANGED <<storeVars, callState, castVars, replay, emitted>>
    /\ UNCHANGED aside

\* `sub.recv().await` yields the oldest buffered event
Recv(s) ==
    /\ rx[s] = "open"
    /\ queue[s] # <<>>
    /\ queue' = [queue EXCEPT ![s] = Tail(@)]
    /\ view' = [view EXCEPT ![s] = ApplyEvent(@, Head(queue[s]))]
    /\ IF snapAt[s].taken
       THEN /\ snapAt' = [snapAt EXCEPT ![s] = NoSnap]
            /\ expect' = expect
            /\ owed' = owed
       ELSE /\ expect' = [expect EXCEPT ![s] = Tail(@)]
            /\ snapAt' = snapAt
            /\ owed' = [owed EXCEPT ![s] =
                           IF Head(queue[s]).type = "Restart" THEN @ - 1 ELSE @]
    /\ UNCHANGED <<storeVars, callState, castVars, listeners, rx, replay, emitted>>

\* a subscriber that only consumes: the logger task of main, a websocket client
Receive(s) ==
    /\ Recv(s)
    /\ UNCHANGED aside

\* the Subscription is dropped: the receiver closes, Drop spawns the removal task
DropSub(s) ==
    /\ rx[s] = "open"
    /\ rx' = [rx EXCEPT ![s] = "closed"]
    /\ queue' = [queue EXCEPT ![s] = <<>>]
    /\ view' = [view EXCEPT ![s] = EmptyMap]
    /\ expect' = [expect EXCEPT ![s] = <<>>]
    /\ snapAt' = [snapAt EXCEPT ![s] = NoSnap]
    /\ owed' = [owed EXCEPT ![s] = 0]
    /\ UNCHANGED <<storeVars, callState, castVars, listeners, replay, emitted>>
    /\ UNCHANGED aside

\* the task spawned by Drop: `store.write().await.listeners.remove(&id)`
Unsubscribe(s) ==
    /\ rx[s] = "closed"
    /\ lock = "free"
    /\ listeners' = listeners \ {s}
    /\ rx' = [rx EXCEPT ![s] = "none"]
    /\ UNCHANGED <<storeVars, callState, castVars, queue, histVars>>
    /\ UNCHANGED aside

\* ------------------------------------------------------------------ readers

\* a read guard handed out while a writer holds the lock
ReadGrantedAlways == TRUE

\* `self.inner.read().await` returns: no task holds the write guard
ReadGranted == lock = "free"

\* Store::get_state: under the read guard, Inner::get_state clones images
GetState ==
    /\ ReadGranted
    /\ snap' = [taken |-> TRUE, map |-> images]
    /\ UNCHANGED <<storeVars, callState, castVars, subVars, histVars, enrichVars,
                   ref, looked, watchVars, elock>>

\* ------------------------------------------------------------------ enriched state

\* everything the pod store, its writer and its subscribers own
podSide == <<storeVars, callState, castVars, subVars, histVars, watchVars>>

\* that, and the lock of the enriched State
storeSide == <<podSide, elock>>

Get(m, k) == IF k \in DOMAIN m THEN m[k] ELSE NoImage

\* a mutate_state that publishes Modified for every entry it is given back,
\* changed or not
MutateStateEager(m, k, new) ==
    LET cur == Get(m, k)
    IN CASE cur = NoImage /\ new = NoImage -> [map |-> m, ev |-> NoEvent]
         [] cur = NoImage /\ new # NoImage -> [map |-> Put(m, k, new), ev |-> Added(k, new)]
         [] cur # NoImage /\ new = NoImage -> [map |-> Remove(m, k), ev |-> Removed(k)]
         [] OTHER -> [map |-> Put(m, k, new), ev |-> Modified(k, new)]

\* State::mutate_state(k, f) with new = f(current): the map it leaves and the
\* event it publishes
MutateState(m, k, new) ==
    LET cur == Get(m, k)
    IN CASE cur = NoImage /\ new = NoImage -> [map |-> m, ev |-> NoEvent]
         [] cur = NoImage /\ new # NoImage -> [map |-> Put(m, k, new), ev |-> Added(k, new)]
         [] cur # NoImage /\ new = NoImage -> [map |-> Remove(m, k), ev |-> Removed(k)]
         [] OTHER -> IF new = cur
                     THEN [map |-> m, ev |-> NoEvent]
                     ELSE [map |-> Put(m, k, new), ev |-> Modified(k, new)]

\* State::set_state(new): the map it leaves and the event it publishes
SetState(new) == [map |-> new, ev |-> Restart(new)]

\* a State that publishes as Inner::broadcast sends: it waits for room in the
\* buffer of an open subscription
PublishWaits(e) ==
    IF e = NoEvent \/ srx # "open"
    THEN UNCHANGED <<squeue, srx>>
    ELSE /\ Len(squeue) < ScanCap
         /\ squeue' = Append(squeue, e)
         /\ srx' = srx

\* the State publishes e to the scan loop's subscription: enqueued, or the
\* subscription is dropped when its buffer is full
Publish(e) ==
    IF e = NoEvent \/ srx # "open"
    THEN UNCHANGED <<squeue, srx>>
    ELSE IF Len(squeue) < ScanCap
         THEN squeue' = Append(squeue, e) /\ srx' = srx
         ELSE squeue' = squeue /\ srx' = "lost"

\* ------------------------------------------------------------------ mirror loop

\* the runner task is a subscriber of the pod store
Mirror == "s1"

\* a merge that leaves the pods of an existing entry as they were
MirrorMergeKeepsPods(cur, owners) ==
    IF cur # NoImage THEN cur ELSE Image(owners, Scheduled)

\* a merge that builds the entry anew, sbom included
MirrorMergeReschedules(cur, owners) == Image(owners, Scheduled)

\* runner, the closure for Added and Modified
MirrorMerge(cur, owners) ==
    IF cur # NoImage
    THEN [cur EXCEPT !.pods = owners]
    ELSE Image(owners, Scheduled)

\* a restart that carries the scan results of the entries it keeps
MirrorResetKeepsSbom(state) ==
    [k \in DOMAIN state |->
        Image(state[k], IF k \in DOMAIN emap THEN emap[k].sbom ELSE Scheduled)]

\* runner, the map built for Restart
MirrorReset(state) == [k \in DOMAIN state |-> Image(state[k], Scheduled)]

\* runner: `store.subscribe(32).await`
MirrorSubscribe == Subscribe(Mirror)

\* runner: `sub.recv().await` yields an event
MirrorRecv ==
    /\ mevt = NoEvent
    /\ Recv(Mirror)
    /\ mevt' = Head(queue[Mirror])
    /\ UNCHANGED <<apart, watchVars, emap, squeue, srx, scanner, elock>>

\* runner: what the match arm of the received event makes of the State, one
\* mutate_state or set_state
MirrorOutcome ==
    CASE mevt.type \in {"Added", "Modified"} ->
             MutateState(emap, mevt.key,
                         MirrorMerge(Get(emap, mevt.key), mevt.owners))
      [] mevt.type = "Removed" -> MutateState(emap, mevt.key, NoImage)
      [] OTHER -> SetState(MirrorReset(mevt.map))

\* runner: with the write lock of the State, the map is replaced and the event
\* published
MirrorMutate ==
    /\ mevt # NoEvent
    /\ emap' = MirrorOutcome.map
    /\ Publish(MirrorOutcome.ev)
    /\ mevt' = NoEvent
    /\ UNCHANGED <<podSide, apart, scanner>>

\* runner: the match arm of the received event as one step, the lock taken
\* and given back within it
MirrorApply == MirrorMutate /\ UNCHANGED elock

\* ------------------------------------------------------------------ scan loop

\* what the artifact service can do with a request
Responses ==
    { [status |-> "2xx", body |-> "sbom"],
      [status |-> "non2xx", body |-> "error page"],
      [status |-> "unreachable", body |-> "-"] }

\* BombasticSource::lookup_sbom: Err when the request fails, else Ok of the
\* body of whatever response came
LookupSbom(resp) ==
    IF resp.status = "unreachable"
    THEN [ok |-> FALSE, data |-> "Request error"]
    ELSE [ok |-> TRUE, data |-> resp.body]

\* Scanner::scan, the match on the result of lookup
ScanState(res) == IF res.ok THEN Found(res.data) ELSE Err(res.data)

\* a write-back that inserts the entry when it is gone
ScanUpdateUpsert(cur, st) ==
    IF cur = NoImage THEN Image({}, st) ELSE [cur EXCEPT !.sbom = st]

\* Scanner::scan, the closure given to mutate_state
ScanUpdate(cur, st) ==
    IF cur = NoImage THEN NoImage ELSE [cur EXCEPT !.sbom = st]

\* a scan loop that takes a Restart for an empty map
ToScanNone(state) == {}

\* the images of a Restart snapshot the scan loop visits
ToScan(state) == {k \in DOMAIN state : state[k].sbom = Scheduled}

AfterScan(rest) == IF rest = {} THEN "recv" ELSE "iter"

\* Scanner::lookup, `bail!("Unable to create PURL for: {image}")`
Bail == [ok |-> FALSE, data |-> "Unable to create PURL"]

\* Scanner::scan(k) begins: lookup parses the image id and sends the request,
\* or bails
Scan(k, rest) ==
    \E ok \in PurlNewOutcomes(LastComponent(RSplitOnce(ImageId(k), "@").base)) :
        LET l == Lookup(ImageId(k), ok)
        IN scanner' = IF l.fetch
                      THEN [pc |-> "fetch", image |-> k, rest |-> rest,
                            result |-> NoSbom]
                      ELSE [pc |-> "write", image |-> k, rest |-> rest,
                            result |-> ScanState(Bail)]

\* scanner: `map.subscribe(128).await`
ScanSubscribe ==
    /\ scanner.pc = "subscribe"
    /\ squeue' = <<Restart(emap)>>
    /\ srx' = "open"
    /\ scanner' = [scanner EXCEPT !.pc = "recv"]
    /\ UNCHANGED <<storeSide, apart, emap, mevt>>

\* scanner: `sub.recv().await` yields an event, and the match on it
ScanRecv ==
    /\ scanner.pc = "recv"
    /\ squeue # <<>>
    /\ squeue' = Tail(squeue)
    /\ LET e == Head(squeue)
       IN CASE e.type \in {"Added", "Modified"} ->
                   IF e.owners.sbom = Scheduled
                   THEN Scan(e.key, {})
                   ELSE scanner' = scanner
            [] e.type = "Restart" ->
                   scanner' = [scanner EXCEPT !.pc = AfterScan(ToScan(e.map)),
                                              !.rest = ToScan(e.map)]
            [] OTHER -> scanner' = scanner
    /\ UNCHANGED <<storeSide, apart, emap, srx, mevt>>

\* scanner: the next turn of `for (image, state) in state`
ScanIter ==
    /\ scanner.pc = "iter"
    /\ \E k \in scanner.rest : Scan(k, scanner.rest \ {k})
    /\ UNCHANGED <<storeSide, apart, emap, squeue, srx, mevt>>

\* the request of lookup_sbom completes
FetchDone ==
    /\ scanner.pc = "fetch"
    /\ \E resp \in Responses :
         scanner' = [scanner EXCEPT !.pc = "write",
                                    !.result = ScanState(LookupSbom(resp))]
    /\ UNCHANGED <<storeSide, apart, emap, squeue, srx, mevt>>

\* Scanner::scan: what the mutate_state of the write-back makes of the State
ScanOutcome ==
    MutateState(emap, scanner.image,
                ScanUpdate(Get(emap, scanner.image), scanner.result))

\* Scanner::scan: with the write lock of the State, the map is replaced and
\* the event published
ScanMutate ==
    /\ scanner.pc = "write"
    /\ emap' = ScanOutcome.map
    /\ Publish(ScanOutcome.ev)
    /\ scanner' = [pc |-> AfterScan(scanner.rest), image |-> NoKey,
                   rest |-> scanner.rest, result |-> NoSbom]
    /\ UNCHANGED <<podSide, apart, mevt>>

\* Scanner::scan: `self.map.mutate_state(image, ..).await` as one step, the
\* lock taken and given back within it
ScanWrite == ScanMutate /\ UNCHANGED elock

\* scanner: recv yields None, "Lost subscription", sleep, and round the loop
ScanLost ==
    /\ scanner.pc = "recv"
    /\ squeue = <<>>
    /\ srx = "lost"
    /\ srx' = "none"
    /\ scanner' = ScanIdle
    /\ UNCHANGED <<storeSide, apart, emap, squeue, mevt>>

\* ------------------------------------------------------------------ lookup alone

\* an image id reaches Scanner::scan
ImageArrives ==
    /\ looked.pc = "idle"
    /\ ref' \in Refs
    /\ looked' = [looked EXCEPT !.pc = "lookup"]
    /\ UNCHANGED <<storeSide, snap, enrichVars>>

\* Scanner::lookup up to the request, and the state scan writes when it bails
LookupStep ==
    /\ looked.pc = "lookup"
    /\ \E ok \in PurlNewOutcomes(LastComponent(RSplitOnce(ref, "@").base)) :
         LET l == Lookup(ref, ok)
         IN looked' = [pc |-> "done", fetch |-> l.fetch, name |-> l.name,
                       version |-> l.version,
                       state |-> IF l.fetch THEN NoSbom ELSE ScanState(Bail)]
    /\ UNCHANGED <<storeSide, snap, enrichVars, ref>>

PurlNext ==
    \/ ImageArrives
    \/ LookupStep

PurlSpec == Init /\ [][PurlNext]_vars

\* ------------------------------------------------------------------ adapter

\* ContainerStatus.image_id of the pods the watcher reports: the empty string
\* and the ids of the images of the model
ImageIds == {""} \cup Keys

\* the image ids of the container statuses of a pod, in the order of
\* container_statuses, init_container_statuses, ephemeral_container_statuses
Statuses == UNION {[1..n -> ImageIds] : n \in 0..MaxStatuses}

\* the pods a watcher event can carry; all pods are of the one namespace "ns",
\* so that the name stands for the PodRef
WatchedPods ==
    [namespace : {None, "ns"}, name : {None} \cup Owners, ids : Statuses]

\* to_key
ToKey(pod) ==
    IF pod.namespace # None /\ pod.name # None
    THEN [some |-> TRUE, ref |-> pod.name]
    ELSE [some |-> FALSE, ref |-> NoKey]

\* to_container_id without its is_empty test
ToContainerIdAny(id) == {id}

\* to_container_id: the Option as a set of at most one ImageRef
ToContainerId(id) == IF id = "" THEN {} ELSE {id}

\* images_from_pod
ImagesFromPod(pod) == UNION {ToContainerId(pod.ids[i]) : i \in DOMAIN pod.ids}

\* to_state, the body of `for pod in pods` on the maps acc built so far
ToStateAdd(acc, pod) ==
    IF ~ToKey(pod).some
    THEN acc
    ELSE LET o == ToKey(pod).ref
             ims == ImagesFromPod(pod)
             had(k) == IF k \in DOMAIN acc.images THEN acc.images[k] ELSE {}
         IN [images |-> [k \in DOMAIN acc.images \cup ims |->
                            IF k \in ims THEN had(k) \cup {o} ELSE had(k)],
             pods |-> Put(acc.pods, o, ims)]

\* run: `stream.try_next().await` yields the next watcher event
WatcherYields ==
    /\ lock = "free"
    /\ wevt = NoWatch
    /\ ncalls < MaxCalls
    /\ ncalls' = ncalls + 1
    /\ \/ \E kind \in {"Applied", "Deleted"}, pod \in WatchedPods :
             wevt' = [kind |-> kind, pod |-> pod]
       \/ wevt' = [kind |-> "Restarted", pod |-> NoPod]
    /\ built' = NoBuilt
    /\ UNCHANGED <<storeVars, callVars, castVars, subVars, histVars, beside>>

\* run, the arm of Applied: `continue` for a pod without key, else apply
HandleApplied ==
    /\ wevt.kind = "Applied"
    /\ IF ToKey(wevt.pod).some
       THEN Apply(ToKey(wevt.pod).ref, ImagesFromPod(wevt.pod))
       ELSE UNCHANGED <<storeVars, callVars, castVars, subVars, histVars, beside>>
    /\ wevt' = NoWatch
    /\ UNCHANGED <<ncalls, built>>

\* run, the arm of Deleted: nothing for a pod without key, else delete
HandleDeleted ==
    /\ wevt.kind = "Deleted"
    /\ IF ToKey(wevt.pod).some
       THEN Delete(ToKey(wevt.pod).ref)
       ELSE UNCHANGED <<storeVars, callVars, castVars, subVars, histVars, beside>>
    /\ wevt' = NoWatch
    /\ UNCHANGED <<ncalls, built>>

\* to_state: `for pod in pods` takes the next pod of the list
ToStateNext ==
    /\ wevt.kind = "Restarted"
    /\ built.n < MaxPods
    /\ \E pod \in WatchedPods : wevt' = [kind |-> "Visit", pod |-> pod]
    /\ UNCHANGED <<storeVars, callState, castVars, subVars, histVars, beside, built>>

\* to_state: the loop body for that pod
ToStateVisit ==
    /\ wevt.kind = "Visit"
    /\ built' = [images |-> ToStateAdd(built, wevt.pod).images,
                 pods |-> ToStateAdd(built, wevt.pod).pods,
                 n |-> built.n + 1]
    /\ wevt' = [kind |-> "Restarted", pod |-> NoPod]
    /\ UNCHANGED <<storeVars, callState, castVars, subVars, histVars, beside>>

\* run, the arm of Restarted once to_state has returned: reset
HandleRestarted ==
    /\ wevt.kind = "Restarted"
    /\ Reset(built.images, built.pods)
    /\ wevt' = NoWatch
    /\ built' = NoBuilt
    /\ UNCHANGED ncalls

\* the writer task from the watcher's pods on, with no subscriber
AdapterNext ==
    \/ WatcherYields
    \/ HandleApplied
    \/ HandleDeleted
    \/ ToStateNext
    \/ ToStateVisit
    \/ HandleRestarted
    \/ DeleteStep
    \/ DeleteDone
    \/ AddStep
    \/ AddDone
    \/ ResetDone
    \/ BroadcastDone

AdapterSpec == Init /\ [][AdapterNext]_vars

\* ------------------------------------------------------------------ system

WriterStep ==
    \/ DeleteStep
    \/ DeleteDone
    \/ AddStep
    \/ AddDone
    \/ ResetDone
    \/ BroadcastDone
    \/ \E s \in Subs : Send(s)

Next ==
    \/ \E o \in Owners, ks \in SUBSET Keys : Applied(o, ks)
    \/ \E o \in Owners : Deleted(o)
    \/ \E ps \in PodMaps : Restarted(ps)
    \/ DeleteStep
    \/ DeleteDone
    \/ AddStep
    \/ AddDone
    \/ ResetDone
    \/ BroadcastDone
    \/ \E s \in Subs : Send(s)
    \/ \E s \in Subs : Subscribe(s)
    \/ \E s \in Subs : Receive(s)
    \/ \E s \in Subs : DropSub(s)
    \/ \E s \in Subs : Unsubscribe(s)

Spec == Init /\ [][Next]_vars

\* the store with no subscriber: the writer task alone
StoreNext ==
    \/ \E o \in Owners, ks \in SUBSET Keys : Applied(o, ks)
    \/ \E o \in Owners : Deleted(o)
    \/ \E ps \in PodMaps : Restarted(ps)
    \/ DeleteStep
    \/ DeleteDone
    \/ AddStep
    \/ AddDone
    \/ ResetDone
    \/ BroadcastDone

StoreSpec == Init /\ [][StoreNext]_vars

\* the writer task beside an HTTP handler that calls get_state
ReaderNext ==
    \/ StoreNext
    \/ GetState

ReaderSpec == Init /\ [][ReaderNext]_vars

\* one subscriber, then four watcher events in a fixed order on the empty store
Observer == "s1"

Scenario ==
    << [op |-> "apply", owner |-> "P1", keys |-> {"I1"}],
       [op |-> "apply", owner |-> "P2", keys |-> {"I1", "I2"}],
       [op |-> "delete", owner |-> "P1", keys |-> {}],
       [op |-> "delete", owner |-> "P2", keys |-> {}] >>

ScenarioCall ==
    /\ rx[Observer] = "open"
    /\ ncalls < Len(Scenario)
    /\ ncalls' = ncalls + 1
    /\ LET c == Scenario[ncalls + 1]
       IN IF c.op = "apply" THEN Apply(c.owner, c.keys) ELSE Delete(c.owner)
    /\ UNCHANGED watchVars

ScenarioNext ==
    \/ ncalls = 0 /\ Subscribe(Observer)
    \/ ScenarioCall
    \/ DeleteStep
    \/ DeleteDone
    \/ AddStep
    \/ AddDone
    \/ BroadcastDone
    \/ Send(Observer)
    \/ Receive(Observer)

ScenarioSpec == Init /\ [][ScenarioNext]_vars

\* bombastic::store beside the pod store: the writer task, the mirror loop as
\* the store's subscriber, the scan loop and the artifact service
MirrorStep ==
    \/ MirrorSubscribe
    \/ MirrorRecv
    \/ MirrorApply

ScanStep ==
    \/ ScanSubscribe
    \/ ScanRecv
    \/ ScanIter
    \/ FetchDone
    \/ ScanWrite
    \/ ScanLost

EnrichNext ==
    \/ \E o \in Owners, ks \in SUBSET Keys : Applied(o, ks)
    \/ \E o \in Owners : Deleted(o)
    \/ \E ps \in PodMaps : Restarted(ps)
    \/ DeleteStep
    \/ DeleteDone
    \/ AddStep
    \/ AddDone
    \/ ResetDone
    \/ BroadcastDone
    \/ Send(Mirror)
    \/ MirrorStep
    \/ ScanStep

EnrichSpec == Init /\ [][EnrichNext]_vars

\* the calls of the writer task once begun, with the sends to the mirror loop
EnrichWriterStep ==
    \/ DeleteStep
    \/ DeleteDone
    \/ AddStep
    \/ AddDone
    \/ ResetDone
    \/ BroadcastDone
    \/ Send(Mirror)

\* a step of any task but the watcher, or a request coming to its end
WorkerStep ==
    \/ EnrichWriterStep
    \/ MirrorStep
    \/ ScanStep

\* while some task can run, one does, and every request to the artifact
\* service ends; the watcher owes no further event.  As the watcher's events
\* are finitely many, this asks no more than weak fairness of each task.
FairEnrichSpec == Init /\ [][EnrichNext]_vars /\ WF_vars(WorkerStep)

\* the same tasks with the write lock of the enriched State made visible:
\* mutate_state, set_state and subscribe each wait for the lock, and a
\* mutation publishes its event before it gives the lock back

\* runner: `write().await` of mutate_state or set_state returns
MirrorLock ==
    /\ mevt # NoEvent
    /\ elock = None
    /\ elock' = "mirror"
    /\ UNCHANGED <<podSide, apart, enrichVars>>

\* runner: the mutation and its broadcast under the lock, and the guard dropped
MirrorLocked ==
    /\ elock = "mirror"
    /\ MirrorMutate
    /\ elock' = None

\* scanner: `map.subscribe(128).await`, which registers under the lock
ScanSubscribeLocked ==
    /\ elock = None
    /\ ScanSubscribe

\* Scanner::scan: `write().await` of mutate_state returns
ScanLock ==
    /\ scanner.pc = "write"
    /\ elock = None
    /\ elock' = "scan"
    /\ UNCHANGED <<podSide, apart, enrichVars>>

\* Scanner::scan: the write-back and its broadcast under the lock, and the
\* guard dropped
ScanLocked ==
    /\ elock = "scan"
    /\ ScanMutate
    /\ elock' = None

LockNext ==
    \/ \E o \in Owners, ks \in SUBSET Keys : Applied(o, ks)
    \/ \E o \in Owners : Deleted(o)
    \/ \E ps \in PodMaps : Restarted(ps)
    \/ DeleteStep
    \/ DeleteDone
    \/ AddStep
    \/ AddDone
    \/ ResetDone
    \/ BroadcastDone
    \/ Send(Mirror)
    \/ MirrorSubscribe
    \/ MirrorRecv
    \/ MirrorLock
    \/ MirrorLocked
    \/ ScanSubscribeLocked
    \/ ScanRecv
    \/ ScanIter
    \/ FetchDone
    \/ ScanLock
    \/ ScanLocked
    \/ ScanLost

LockSpec == Init /\ [][LockNext]_vars

\* the writer task and the sends it awaits are scheduled; nothing obliges a
\* subscriber to receive, to drop its handle or to subscribe
FairSpec == Init /\ [][Next]_vars /\ WF_vars(WriterStep)

\* as FairSpec, and every removal task spawned by a drop is scheduled too
DropFairSpec ==
    /\ Init /\ [][Next]_vars
    /\ WF_vars(WriterStep)
    /\ \A s \in Subs : WF_vars(Unsubscribe(s))

\* ------------------------------------------------------------------ calls as a whole

\* every call that returns has done, step by step, what RunApply, RunDelete
\* or Inner::reset does in one piece, for some order of its loops
StepsMatchRun ==
    [][(lock = "write" /\ lock' = "free") =>
          LET done == [images |-> images', pods |-> pods', events |-> emitted]
          IN \E d, a \in KeyOrders :
                CASE call.op = "apply" ->
                         done = RunApply(pre.images, pre.pods, call.owner,
                                         call.keys, d, a)
                  [] call.op = "delete" ->
                         done = RunDelete(pre.images, pre.pods, call.owner, d)
                  [] OTHER ->
                         /\ done.events = <<Restart(images)>>
                         /\ images' = images /\ pods' = pods]_vars

\* ------------------------------------------------------------------ claims

Idle == lock = "free"

\* C1: whenever no call is in progress, for every key K and owner O, O is among
\* the owners of images[K] exactly when K is among the keys of pods[O].
C1_Bidirectional ==
    Idle => \A k \in Keys, o \in Owners :
                (k \in DOMAIN images /\ o \in images[k])
                    <=> (o \in DOMAIN pods /\ k \in pods[o])

\* two calls have returned and left a key with two owners and an owner with
\* two keys
C1_Witness ==
    /\ Idle
    /\ ncalls = MaxCalls
    /\ \E k \in DOMAIN images : images[k] = Owners
    /\ \E o \in DOMAIN pods : pods[o] = Keys

\* the events a subscriber can still observe
Visible == {evt} \cup UNION {{queue[s][i] : i \in DOMAIN queue[s]} : s \in Subs}

\* C2: in every state, no entry of images has an empty owners set, and no
\* Added or Modified event that is in delivery or queued carries one.
C2_NoEmptyEntry ==
    /\ \A k \in DOMAIN images : images[k] # {}
    /\ \A e \in Visible : e.type \in {"Added", "Modified"} => e.owners # {}

\* a delete has just removed the last owner of a key: the entry is gone and
\* Removed is being delivered
C2_Witness ==
    /\ call.op = "delete"
    /\ evt.type = "Removed"
    /\ evt.key \notin DOMAIN images
    /\ todo # {}

\* the event on its way to subscriber s, not yet in its buffer
Inflight(s) == IF s \in todo THEN <<evt>> ELSE <<>>

\* the Restart a subscriber that has received nothing yet is owed
Initial(s) == IF snapAt[s].taken THEN <<Restart(snapAt[s].map)>> ELSE <<>>

\* C3: for every live subscription, until its first receive the head of its
\* queue is Restart(S) with S the images map at registration, and what it has
\* received, followed by what is queued or in delivery for it, folds to the
\* current images map (so every later event is a mutation made after S).
C3_RestartFirst ==
    \A s \in Subs :
        rx[s] = "open" =>
            /\ snapAt[s].taken =>
                   /\ queue[s] # <<>>
                   /\ Head(queue[s]) = Restart(snapAt[s].map)
            /\ FoldEvents(view[s], queue[s] \o Inflight(s)) = images

\* a subscriber registered on a non-empty store while no call ran, has not
\* received yet, and a later call's event is queued behind its Restart
C3_Witness ==
    \E s \in Subs :
        /\ rx[s] = "open"
        /\ snapAt[s].taken
        /\ snapAt[s].map # EmptyMap
        /\ Len(queue[s]) = 2
        /\ queue[s][2].type # "Restart"
        /\ lock = "write"

\* C4: a broadcast never waits on a subscriber whose queue is full: the send to
\* it can complete at once (by dropping the subscriber).
C4_NoWaitOnFullQueue ==
    \A s \in Subs :
        (evt # NoEvent /\ s \in todo /\ Len(queue[s]) >= QueueCap)
            => ENABLED Send(s)

\* C5: every call that holds the write lock eventually returns and frees it,
\* whatever the subscribers do.
C5_CallsReturn == (lock = "write") ~> (lock = "free")

\* C6: for every live subscription, what is queued and in delivery for it is
\* exactly the events broadcast since it registered that it has not received,
\* in broadcast order, after its initial Restart.
C6_Fifo ==
    \A s \in Subs :
        rx[s] = "open" => queue[s] \o Inflight(s) = Initial(s) \o expect[s]

\* two live subscribers at different points of the same stream, one with two
\* different mutation events queued
C6_Witness ==
    \E s, t \in Subs :
        /\ s # t
        /\ rx[s] = "open" /\ rx[t] = "open"
        /\ ~snapAt[s].taken
        /\ Len(queue[s]) = 2
        /\ queue[s][1] # queue[s][2]
        /\ queue[s][1].type # "Restart" /\ queue[s][2].type # "Restart"
        /\ queue[t] # queue[s]

\* C7: from every store state a call can start in, for every owner, key set
\* and loop order, an apply that directly follows the same apply emits no
\* event and leaves images and pods as the first left them.
C7_ApplyTwice ==
    Idle => \A o \in Owners, ks \in SUBSET Keys, d1, a1, d2, a2 \in KeyOrders :
                LET r1 == RunApply(images, pods, o, ks, d1, a1)
                    r2 == RunApply(r1.images, r1.pods, o, ks, d2, a2)
                IN r2 = [images |-> r1.images, pods |-> r1.pods, events |-> <<>>]

\* a store in which some apply replaces an owner's keys and emits events on
\* its delete and on its add path
C7_Witness ==
    /\ Idle
    /\ ncalls > 0
    /\ \E o \in DOMAIN pods, ks \in SUBSET Keys, d \in KeyOrders :
           /\ pods[o] # {} /\ ks # {} /\ ks # pods[o]
           /\ Len(RunApply(images, pods, o, ks, d, d).events) > 1

\* an owner that owns no key: no pods entry, or an empty one
OwnsNoKey(o) == o \notin DOMAIN pods \/ pods[o] = {}

\* C8 as claimed: delete of an owner that owns no key leaves images and pods
\* unchanged and emits no event.
C8_DeleteUnchanged ==
    Idle => \A o \in Owners, d \in KeyOrders :
                OwnsNoKey(o) =>
                    LET r == RunDelete(images, pods, o, d)
                    IN r.images = images /\ r.pods = pods /\ r.events = <<>>

\* C8 amended: delete of an owner that owns no key emits no event, leaves
\* images unchanged, and changes pods at most by removing that owner's empty
\* entry.
C8_DeleteDropsEmptyEntry ==
    Idle => \A o \in Owners, d \in KeyOrders :
                OwnsNoKey(o) =>
                    LET r == RunDelete(images, pods, o, d)
                    IN /\ r.images = images
                       /\ r.events = <<>>
                       /\ r.pods = Remove(pods, o)

\* an owner with an empty pods entry beside an owner that holds keys
C8_Witness ==
    /\ Idle
    /\ images # EmptyMap
    /\ \E o \in DOMAIN pods : pods[o] = {}

\* C9 as claimed: apply with no keys and delete end in the same images, the
\* same pods and the same events.
C9_ApplyEmptyIsDelete ==
    Idle => \A o \in Owners, d, a \in KeyOrders :
                RunApply(images, pods, o, {}, d, a) = RunDelete(images, pods, o, d)

\* C9 amended: apply with no keys and delete emit the same events and end in
\* the same images; their pods agree on every other owner, and the owner is
\* left with an empty entry by apply and with no entry by delete.
C9_ApplyEmptyLikeDelete ==
    Idle => \A o \in Owners, d, a \in KeyOrders :
                LET ra == RunApply(images, pods, o, {}, d, a)
                    rd == RunDelete(images, pods, o, d)
                IN /\ ra.events = rd.events
                   /\ ra.images = rd.images
                   /\ o \in DOMAIN ra.pods /\ ra.pods[o] = {}
                   /\ rd.pods = Remove(ra.pods, o)

\* an owner that holds two keys, one of them shared: releasing it emits a
\* Removed and a Modified
C9_Witness ==
    /\ Idle
    /\ \E o \in DOMAIN pods :
           /\ pods[o] = Keys
           /\ \E k \in Keys : images[k] = Owners
           /\ \E k \in Keys : images[k] = {o}

\* C10: when no call is in progress, the emitted events folded in order onto
\* the empty map give the images map, and so do the events received by any
\* live subscriber whose queue is drained.
C10_LogSound ==
    Idle => /\ replay = images
            /\ \A s \in Subs :
                   (rx[s] = "open" /\ queue[s] = <<>>) => view[s] = images

\* after two calls on a store with a shared key, a subscriber has drained its
\* queue and its fold is the non-empty images map
C10_Witness ==
    /\ Idle
    /\ ncalls = MaxCalls
    /\ \E k \in DOMAIN images : images[k] = Owners
    /\ \E s \in Subs : rx[s] = "open" /\ queue[s] = <<>> /\ view[s] = images

\* C11: a Restart is broadcast only inside a reset call, never by apply or
\* delete, and the Restart events a live subscriber has received after its
\* first event never outnumber the reset calls made since it registered.
C11_RestartOnlyOnReset ==
    /\ evt.type = "Restart" => call.op = "reset"
    /\ \A s \in Subs : rx[s] = "open" => owed[s] >= 0

\* a subscriber that registered before a reset and an apply has received its
\* first event; the reset's Restart and the apply's event are queued for it
C11_Witness ==
    \E s \in Subs :
        /\ rx[s] = "open"
        /\ ~snapAt[s].taken
        /\ owed[s] = 1
        /\ Len(queue[s]) = 2
        /\ queue[s][1].type = "Restart"
        /\ queue[s][2].type \in {"Added", "Modified", "Removed"}

\* C12: a reset call replaces images and pods by the maps built from the
\* watcher's pod list, whatever the store held and however many pods there
\* are, keeps them until it returns, and broadcasts exactly one event, the
\* Restart of the new images map.
C12_ResetOneRestart ==
    [][/\ (call.op # "reset" /\ call'.op = "reset") =>
              /\ \E ps \in PodMaps : pods' = ps /\ images' = ImagesOf(ps)
              /\ emitted' = <<Restart(images')>>
       /\ call.op = "reset" =>
              /\ images' = images /\ pods' = pods
              /\ emitted = <<Restart(images)>>
              /\ lock' = "write" => emitted' = emitted]_vars

\* a reset with no pod has replaced a non-empty store and delivered its one
\* Restart to a subscriber
C12_Witness ==
    /\ call.op = "reset"
    /\ evt = NoEvent
    /\ pre.images # EmptyMap
    /\ images = EmptyMap /\ pods = EmptyMap
    /\ emitted = <<Restart(EmptyMap)>>
    /\ \E s \in Subs : rx[s] = "open" /\ queue[s] # <<>>
                         /\ queue[s][Len(queue[s])] = Restart(EmptyMap)

\* C19: get_state returns only while no apply, delete or reset is in
\* progress, and what it returns is the images map of that moment: the map
\* as the last finished call left it, never one from the middle of a call.
C19_SnapshotAtomic ==
    [][snap' # snap => (Idle /\ snap'.taken /\ snap'.map = images)]_vars

\* a snapshot was returned between two calls; the second call is now between
\* its delete loop and its add loop, on a map no snapshot may show
C19_Witness ==
    /\ snap.taken
    /\ snap.map # EmptyMap
    /\ call.op = "apply"
    /\ phase = "add"
    /\ snap.map = pre.images
    /\ images # pre.images
    /\ rem = call.keys /\ rem # {}

\* C20: once a Subscription handle is dropped, its id eventually leaves the
\* listener table.
C20_DroppedIsRemoved ==
    \A s \in Subs : (rx[s] = "closed") ~> (s \notin listeners)

\* the events each call of the scenario is to emit, in any order
ScenarioEvents ==
    << {Added("I1", {"P1"})},
       {Modified("I1", {"P1", "P2"}), Added("I2", {"P2"})},
       {Modified("I1", {"P2"})},
       {Removed("I1"), Removed("I2")} >>

\* C18: with a subscriber registered on the empty store, apply(P1,{I1}),
\* apply(P2,{I1,I2}), delete(P1), delete(P2) each broadcast exactly the events
\* of ScenarioEvents, once each and in any order, and the last call leaves
\* images and pods empty.
C18_Scenario ==
    [][(lock = "write" /\ lock' = "free") =>
          /\ Len(emitted) = Cardinality(ScenarioEvents[ncalls])
          /\ {emitted[i] : i \in DOMAIN emitted} = ScenarioEvents[ncalls]
          /\ ncalls = Len(Scenario) => images' = EmptyMap /\ pods' = EmptyMap]_vars

\* the fourth call has returned and the subscriber has received everything:
\* its fold of the received events is the empty map again
C18_Witness ==
    /\ Idle
    /\ ncalls = Len(Scenario)
    /\ images = EmptyMap /\ pods = EmptyMap
    /\ rx[Observer] = "open"
    /\ queue[Observer] = <<>>
    /\ ~snapAt[Observer].taken
    /\ view[Observer] = EmptyMap

\* C13: the write-back of a scan never adds or removes an entry of the
\* enriched map, and when the scanned image is gone from the map (removed by
\* the mirror loop while the fetch was in flight) it changes nothing and
\* publishes no event.
C13_NoResurrection ==
    [][(scanner.pc = "write" /\ scanner'.pc # "write") =>
          /\ DOMAIN emap' = DOMAIN emap
          /\ scanner.image \notin DOMAIN emap =>
                 emap' = emap /\ squeue' = squeue /\ srx' = srx]_vars

\* a fetch has completed with an SBOM for an image that the mirror loop has
\* removed meanwhile; the scan loop's subscription is open and has room
C13_Witness ==
    /\ scanner.pc = "write"
    /\ scanner.result.kind = "Found"
    /\ scanner.image \notin DOMAIN emap
    /\ scanner.image \notin DOMAIN images
    /\ srx = "open"
    /\ Len(squeue) < ScanCap

\* C14: every entry of the enriched map whose sbom is Scheduled is eventually
\* Found or Err, or is removed, also when the scan loop loses its
\* subscription on the way and subscribes again.
C14_ScheduledResolves ==
    \A k \in Keys :
        (k \in DOMAIN emap /\ emap[k].sbom = Scheduled)
            ~> (k \notin DOMAIN emap \/ emap[k].sbom.kind \in {"Found", "Err"})

\* the scan loop has drained a subscription that the map dropped, and an
\* entry is still Scheduled
C14_Witness ==
    /\ scanner.pc = "recv"
    /\ squeue = <<>>
    /\ srx = "lost"
    /\ \E k \in DOMAIN emap : emap[k].sbom = Scheduled

\* the body of a response with a 2xx status
Blobs == {resp.body : resp \in {r \in Responses : r.status = "2xx"}}

\* C15: an entry's sbom is Found(blob) only if blob is the body of a 2xx
\* response; a request that failed or was answered with another status
\* leaves Err.
C15_FoundOnlyOn2xx ==
    \A k \in DOMAIN emap :
        emap[k].sbom.kind = "Found" => emap[k].sbom.data \in Blobs

\* the image id is base@digest with no '@' in digest and digest = sha256:...
HasSha256Digest(str) ==
    \E i \in DOMAIN str :
        /\ str[i] = "@"
        /\ \A j \in DOMAIN str : j > i => str[j] # "@"
        /\ i + Len(Sha256Prefix) <= Len(str)
        /\ \A j \in DOMAIN Sha256Prefix : str[i + j] = Sha256Prefix[j]

\* C16: for an image id without '@', or whose part after the rightmost '@'
\* does not start with "sha256:", lookup sends no request and scan writes Err
\* with a message; for "registry.io/foo/bar@sha256:deadbeef" the request is
\* made for the name "bar" and the version "sha256:deadbeef".
C16_Resolution ==
    looked.pc = "done" =>
        /\ ~HasSha256Digest(ref) =>
               /\ ~looked.fetch
               /\ looked.state.kind = "Err"
               /\ looked.state.data # ""
        /\ ref = GoodRef =>
               /\ looked.fetch
               /\ looked.name = <<"b", "a", "r">>
               /\ looked.version = Sha256Prefix \o
                                    <<"d", "e", "a", "d", "b", "e", "e", "f">>

\* lookup has bailed on an image id with two '@' whose first is followed by
\* "sha256:" and whose last is not
C16_Witness ==
    /\ looked.pc = "done"
    /\ ~looked.fetch
    /\ Cardinality(Positions(ref, "@")) = 2
    /\ StartsWith(SubSeq(ref, First(Positions(ref, "@")) + 1, Len(ref)), Sha256Prefix)
    /\ ~HasSha256Digest(ref)

\* the pod store is between two calls and the mirror loop has received and
\* applied every event of its subscription
MirrorDrained ==
    /\ Idle
    /\ rx[Mirror] = "open"
    /\ queue[Mirror] = <<>>
    /\ mevt = NoEvent

\* C17: whenever the pod store is at rest and the mirror loop has drained its
\* subscription, the enriched map has exactly the keys of images, and the
\* pods of each of its entries are the owners of that key.
C17_Mirrors ==
    MirrorDrained =>
        /\ DOMAIN emap = DOMAIN images
        /\ \A k \in DOMAIN emap : emap[k].pods = images[k]

\* after the watcher's last event the mirror loop has drained its
\* subscription; an entry with two owners has been scanned meanwhile
C17_Witness ==
    /\ MirrorDrained
    /\ ncalls = MaxCalls
    /\ \E k \in DOMAIN emap : emap[k].pods = Owners /\ emap[k].sbom.kind = "Found"

\* the keys an owner held when the current call began
HeldBefore(o) == IF o \in DOMAIN pre.pods THEN pre.pods[o] ELSE {}

\* the owners a key had when the current call began, the caller left out
OthersBefore(o, k) == IF k \in DOMAIN pre.images THEN pre.images[k] \ {o} ELSE {}

\* C21: an apply(owner, keys) that is not a no-op first emits only Removed
\* and Modified events for keys the owner held, then for each K of keys one
\* event: Added(K, {owner}) if no other owner holds K, else Modified(K, the
\* other owners and owner); on return pods[owner] = keys, the other pods
\* entries are as before, owner is an owner of every K of keys, and every key
\* outside the old and the new key set has the entry it had.
C21_ApplyEffect ==
    [][(call.op = "apply" /\ lock = "write" /\ lock' = "free") =>
          LET o == call.owner
              ks == call.keys
              n == Len(emitted)
              m == Cardinality(ks)
              want(k) == IF OthersBefore(o, k) = {}
                         THEN Added(k, {o})
                         ELSE Modified(k, OthersBefore(o, k) \cup {o})
          IN /\ n >= m
             /\ {emitted[i] : i \in (n - m + 1)..n} = {want(k) : k \in ks}
             /\ \A i \in 1..(n - m) :
                    /\ emitted[i].type \in {"Removed", "Modified"}
                    /\ emitted[i].key \in HeldBefore(o)
             /\ pods' = Put(pre.pods, o, ks)
             /\ \A k \in ks : k \in DOMAIN images' /\ o \in images'[k]
             /\ \A k \in Keys \ (HeldBefore(o) \cup ks) :
                    /\ k \in DOMAIN images' <=> k \in DOMAIN pre.images
                    /\ k \in DOMAIN images' => images'[k] = pre.images[k]]_vars

\* an apply is about to return: it released two keys of its owner, one of
\* them shared, and joined the shared one again
C21_Witness ==
    /\ call.op = "apply"
    /\ phase = "add" /\ rem = {} /\ evt = NoEvent
    /\ HeldBefore(call.owner) = Keys
    /\ Cardinality(call.keys) = 1
    /\ Len(emitted) = 3
    /\ emitted[3].type = "Modified"
    /\ emitted[3].owners = Owners

\* C22: when delete(owner) ends, on its own or as the release inside apply,
\* it has emitted exactly one event for each key owner held and none for any
\* other key: Removed(K), with the entry erased, if owner was the only owner
\* of K, else Modified(K, the previous owners without owner), which is then
\* the entry; pods[owner] is gone and no other pods entry has changed.
C22_DeleteEffect ==
    [][(phase = "delete" /\ phase' # "delete") =>
          LET o == call.owner
              held == HeldBefore(o)
              want(k) == IF OthersBefore(o, k) = {}
                         THEN Removed(k)
                         ELSE Modified(k, OthersBefore(o, k))
          IN /\ Len(emitted) = Cardinality(held)
             /\ {emitted[i] : i \in DOMAIN emitted} = {want(k) : k \in held}
             /\ \A k \in held :
                    IF OthersBefore(o, k) = {}
                    THEN k \notin DOMAIN images
                    ELSE k \in DOMAIN images /\ images[k] = OthersBefore(o, k)
             /\ \A k \in Keys \ held :
                    /\ k \in DOMAIN images <=> k \in DOMAIN pre.images
                    /\ k \in DOMAIN images => images[k] = pre.images[k]
             /\ images' = images
             /\ pods = Remove(pre.pods, o)
             /\ call.op = "delete" => pods' = pods]_vars

\* a delete is about to return: its owner held a key of its own and a shared
\* one, so it emitted a Removed and a Modified
C22_Witness ==
    /\ call.op = "delete"
    /\ phase = "delete" /\ rem = {} /\ evt = NoEvent
    /\ HeldBefore(call.owner) = Keys
    /\ Len(emitted) = 2
    /\ {emitted[1].type, emitted[2].type} = {"Removed", "Modified"}

\* the places in the events of the current call that tell of key k; a Restart
\* tells of every key
EventsAbout(k) ==
    {i \in DOMAIN emitted : emitted[i].key = k \/ emitted[i].type = "Restart"}

\* C23: when an apply, delete or reset call returns, for every key the call
\* emitted an event about, the last such event tells the key's state in the
\* store: Added or Modified with exactly the owners of its entry (a Restart
\* with exactly the images map) if it has an entry, Removed (a Restart whose
\* map has no such key) if it has none.
C23_LastEventIsFinal ==
    [][(lock = "write" /\ lock' = "free") =>
          \A k \in Keys :
              EventsAbout(k) # {} =>
                  LET e == emitted[Last(EventsAbout(k))]
                  IN IF e.type = "Restart"
                     THEN e.map = images'
                     ELSE IF k \in DOMAIN images'
                          THEN /\ e.type \in {"Added", "Modified"}
                               /\ e.owners = images'[k]
                          ELSE e = Removed(k)]_vars

\* an apply is about to return that gave its owner a key the owner held
\* alone before: Removed was emitted for the key, and later Added
C23_Witness ==
    /\ call.op = "apply"
    /\ phase = "add" /\ rem = {} /\ evt = NoEvent
    /\ \E k \in call.keys \cap HeldBefore(call.owner) :
           \E i, j \in DOMAIN emitted :
               /\ i < j
               /\ emitted[i] = Removed(k)
               /\ emitted[j] = Added(k, {call.owner})

\* the step is a mutate_state call of the mirror loop or of the scan loop
MirrorMutates == mevt.type \in {"Added", "Modified", "Removed"} /\ mevt' = NoEvent

ScanMutates == scanner.pc = "write" /\ scanner'.pc # "write"

\* the one event a change of an entry from cur to new is to publish, if any
ChangeEvent(k, cur, new) ==
    IF cur = new THEN NoEvent
    ELSE IF cur = NoImage THEN Added(k, new)
    ELSE IF new = NoImage THEN Removed(k)
    ELSE Modified(k, new)

\* this step hands exactly the events es to the scan loop's subscription
Published(es) ==
    IF srx # "open" THEN squeue' = squeue /\ srx' = srx
    ELSE \/ squeue' = squeue \o es /\ srx' = "open" /\ Len(squeue') <= ScanCap
         \/ squeue' = squeue /\ srx' = "lost" /\ Len(squeue \o es) > ScanCap

\* C24: every mutate_state call of the mirror loop and of the scan loop
\* changes no entry but that of its key and publishes exactly the event of
\* that entry's change: Added(K, e) from absent to e, Modified(K, e') from e
\* to a different e', Removed(K) from present to absent, and nothing when the
\* entry stays absent or keeps its value.
C24_MutateEvents ==
    [][(MirrorMutates \/ ScanMutates) =>
          LET k == IF MirrorMutates THEN mevt.key ELSE scanner.image
              e == ChangeEvent(k, Get(emap, k), Get(emap', k))
          IN /\ \A j \in Keys \ {k} : Get(emap', j) = Get(emap, j)
             /\ Published(IF e = NoEvent THEN <<>> ELSE <<e>>)]_vars

\* a second scan of an image has ended as the first did: the write-back finds
\* the entry with the value it brings, and the subscription is open
C24_Witness ==
    /\ scanner.pc = "write"
    /\ scanner.image \in DOMAIN emap
    /\ emap[scanner.image].sbom = scanner.result
    /\ srx = "open"
    /\ Len(squeue) < ScanCap

\* C25: when the mirror loop applies an upstream Added(K, entry) or
\* Modified(K, entry), the enriched entry of K gets entry's owners as its pods
\* and keeps its sbom if it existed, and is created with sbom Scheduled if it
\* did not; when it applies Removed(K) the entry is erased; no other entry
\* changes.
C25_MirrorMerge ==
    [][MirrorMutates =>
          LET k == mevt.key
          IN /\ \A j \in Keys \ {k} : Get(emap', j) = Get(emap, j)
             /\ IF mevt.type = "Removed"
                THEN k \notin DOMAIN emap'
                ELSE /\ k \in DOMAIN emap'
                     /\ emap'[k].pods = mevt.owners
                     /\ emap'[k].sbom = IF k \in DOMAIN emap THEN emap[k].sbom
                                        ELSE Scheduled]_vars

\* the mirror loop is about to apply a Modified with new owners to an entry
\* whose scan has ended
C25_Witness ==
    /\ mevt.type = "Modified"
    /\ mevt.key \in DOMAIN emap
    /\ emap[mevt.key].sbom.kind \in {"Found", "Err"}
    /\ emap[mevt.key].pods # mevt.owners

\* the step is the set_state call of the mirror loop
MirrorRestarts == mevt.type = "Restart" /\ mevt' = NoEvent

\* C26: when the mirror loop applies an upstream Restart(snapshot), be it the
\* first event of its subscription or the event of a reset, the enriched map
\* becomes in that one step the map with exactly the keys of snapshot, each
\* with the snapshot's owners as pods and sbom Scheduled: no Found or Err
\* stays and no key outside snapshot stays.
C26_MirrorRestart ==
    [][MirrorRestarts =>
          /\ DOMAIN emap' = DOMAIN mevt.map
          /\ \A k \in DOMAIN emap' :
                 emap'[k].pods = mevt.map[k] /\ emap'[k].sbom = Scheduled]_vars

\* the mirror loop is about to apply the Restart of a reset: the snapshot
\* keeps an image whose SBOM was found and lacks another image of the map
C26_Witness ==
    /\ mevt.type = "Restart"
    /\ \E k \in DOMAIN emap \cap DOMAIN mevt.map : emap[k].sbom.kind = "Found"
    /\ \E k \in DOMAIN emap : k \notin DOMAIN mevt.map

\* the step sends the request for the SBOM of the image in scanner'.image
FetchBegins == scanner.pc \in {"recv", "iter"} /\ scanner'.pc = "fetch"

\* C27: an entry whose sbom is Err keeps that sbom for as long as it exists,
\* unless the mirror loop applies a Restart, and no request is sent for an
\* image whose entry's sbom is Err.
C27_ErrLatches ==
    [][/\ \A k \in DOMAIN emap \cap DOMAIN emap' :
              (emap[k].sbom.kind = "Err" /\ emap'[k].sbom # emap[k].sbom)
                  => MirrorRestarts
       /\ FetchBegins =>
              ~(/\ scanner'.image \in DOMAIN emap
                /\ emap[scanner'.image].sbom.kind = "Err")]_vars

\* a pod for which to_key has no PodRef
LacksKey(pod) == pod.namespace = None \/ pod.name = None

\* the empty ImageRef is in neither of two maps
NoEmptyRef(imgs, pds) ==
    /\ "" \notin DOMAIN imgs
    /\ \A o \in DOMAIN pds : "" \notin pds[o]

\* C28: handling an Applied or Deleted watcher event for a pod without
\* namespace or without name changes neither images nor pods, starts no call
\* and emits no event; visiting such a pod in the list of a Restarted event
\* changes neither map being built; and the empty image id is never a key of
\* images nor a member of a key set of pods, in the store and in the maps
\* being built.
C28_AdapterSkips ==
    /\ [](NoEmptyRef(images, pods) /\ NoEmptyRef(built.images, built.pods))
    /\ [][/\ (wevt.kind \in {"Applied", "Deleted"} /\ wevt' = NoWatch
                  /\ LacksKey(wevt.pod))
              => UNCHANGED <<images, pods, lock, call, evt, emitted, replay>>
          /\ (wevt.kind = "Visit" /\ wevt'.kind # "Visit" /\ LacksKey(wevt.pod))
              => (built'.images = built.images /\ built'.pods = built.pods)]_vars

\* to_state has skipped a first pod and is at a second one, which has a key,
\* a container status without image id and one with an image id
C28_Witness ==
    /\ wevt.kind = "Visit"
    /\ built.n = 1
    /\ built.pods = EmptyMap
    /\ ~LacksKey(wevt.pod)
    /\ \E i, j \in DOMAIN wevt.pod.ids :
           wevt.pod.ids[i] = "" /\ wevt.pod.ids[j] # ""

\* C29: whatever pods to_state has visited, the maps it has built agree in
\* both directions (O is an owner of by_images[K] exactly when K is a key of
\* by_pods[O]) and no entry of by_images is without owners.
C29_ToStateConsistent ==
    wevt.kind = "Restarted" =>
        /\ \A k \in Keys, o \in Owners :
               (k \in DOMAIN built.images /\ o \in built.images[k])
                   <=> (o \in DOMAIN built.pods /\ k \in built.pods[o])
        /\ \A k \in DOMAIN built.images : built.images[k] # {}

\* the mirror loop holds the write lock of the State and cannot go on: the
\* event it has to publish finds no room in the scan loop's queue
MirrorWaitsForRoom == elock = "mirror" /\ ~ENABLED MirrorLocked

\* the scan loop, inside its handler, holds the lock and cannot go on: the
\* event of its write-back finds no room in its own queue
ScanWaitsForRoom == elock = "scan" /\ ~ENABLED ScanLocked

\* the scan loop, inside its handler, waits for the lock to write back
ScanWaitsForLock == scanner.pc = "write" /\ elock # "scan"

====
